---- MODULE Spec2Model ----
(***************************************************************************)
(* Model of src/server.js: the create-receipt handler, its retry-wrapped   *)
(* registrar call, the failure recorder, the administrator notifier and    *)
(* the health endpoint.                                                    *)
(*                                                                         *)
(* JavaScript numbers are IEEE-754 binary64 values.  They are modelled     *)
(* exactly: a number is a record [m |-> bits, e |-> exponent] standing for *)
(* the 53-bit integer m (top bit set) times 2^e; zero has m empty.  All    *)
(* arithmetic is done exactly on integers of any size and rounded once to  *)
(* nearest, ties to even, as the hardware does.                            *)
(***************************************************************************)
EXTENDS Integers, Sequences, FiniteSets

\* ------------------------------------------------------------------------
\* Natural numbers of any size, as sequences of limbs in base 2^15, least
\* significant limb first (a 53-bit mantissa does not fit a machine integer
\* of the model checker, and a product of two limbs does).
\* ------------------------------------------------------------------------

Base == 32768

LimbBits == 15

Max2(a, b) == IF a >= b THEN a ELSE b

Min2(a, b) == IF a <= b THEN a ELSE b

RECURSIVE Pow2(_)
Pow2(k) == IF k = 0 THEN 1 ELSE 2 * Pow2(k - 1)

RECURSIVE Pow10(_)
Pow10(k) == IF k = 0 THEN 1 ELSE 10 * Pow10(k - 1)

RECURSIVE LimbsOf(_)
LimbsOf(n) == IF n = 0 THEN << >> ELSE <<n % Base>> \o LimbsOf(n \div Base)

\* The value of a limb sequence that fits a machine integer.
RECURSIVE IntOf(_)
IntOf(a) == IF a = << >> THEN 0 ELSE a[1] + Base * IntOf(Tail(a))

RECURSIVE Trim(_)
Trim(a) ==
    IF a = << >> THEN a
    ELSE IF a[Len(a)] # 0 THEN a
    ELSE Trim(SubSeq(a, 1, Len(a) - 1))

LimbAt(a, i) == IF i >= 1 /\ i <= Len(a) THEN a[i] ELSE 0

RECURSIVE AddFrom(_, _, _, _)
AddFrom(a, b, i, carry) ==
    IF i > Max2(Len(a), Len(b))
    THEN (IF carry = 0 THEN << >> ELSE <<carry>>)
    ELSE LET s == LimbAt(a, i) + LimbAt(b, i) + carry
         IN  <<s % Base>> \o AddFrom(a, b, i + 1, s \div Base)

AddBig(a, b) == Trim(AddFrom(a, b, 1, 0))

RECURSIVE MulFrom(_, _, _, _)
MulFrom(a, q, i, carry) ==
    IF i > Len(a)
    THEN (IF carry = 0 THEN << >> ELSE <<carry>>)
    ELSE LET s == a[i] * q + carry
         IN  <<s % Base>> \o MulFrom(a, q, i + 1, s \div Base)

\* a * q for 0 <= q < Base.
MulSmall(a, q) == Trim(MulFrom(a, q, 1, 0))

\* Long division of a by d, 1 <= d < Base, from the top limb down: the
\* quotient's limbs below position i (most significant first) and the
\* remainder.
RECURSIVE DivFrom(_, _, _, _)
DivFrom(a, d, i, rem) ==
    IF i = 0 THEN [q |-> << >>, r |-> rem]
    ELSE LET cur  == rem * Base + a[i]
             rest == DivFrom(a, d, i - 1, cur % d)
         IN  [q |-> rest.q \o <<cur \div d>>, r |-> rest.r]

DivSmall(a, d) ==
    LET res == DivFrom(a, d, Len(a), 0)
    IN  [q |-> Trim(res.q), r |-> res.r]

RECURSIVE BitLenInt(_)
BitLenInt(n) == IF n = 0 THEN 0 ELSE 1 + BitLenInt(n \div 2)

BitLen(a) ==
    IF a = << >> THEN 0
    ELSE (Len(a) - 1) * LimbBits + BitLenInt(a[Len(a)])

ShiftLeft(a, k) ==
    IF a = << >> THEN a
    ELSE [i \in 1..(k \div LimbBits) |-> 0] \o MulSmall(a, Pow2(k % LimbBits))

ShiftRight(a, k) ==
    IF Len(a) <= k \div LimbBits THEN << >>
    ELSE DivSmall(SubSeq(a, (k \div LimbBits) + 1, Len(a)), Pow2(k % LimbBits)).q

\* ------------------------------------------------------------------------
\* binary64 numbers.
\* ------------------------------------------------------------------------

MantBits == 53

ParseScale == 70

NaN == [nan |-> TRUE]

Zero == [m |-> << >>, e |-> 0]

IsNaN(x) == "nan" \in DOMAIN x

\* The integer a times 2^e, plus a non-zero fraction of its last place when
\* sticky holds, rounded to a 53-bit mantissa: to nearest, ties to even.
Round53(a, sticky, e) ==
    LET t == Trim(a)
        n == BitLen(t)
    IN  IF n = 0 THEN Zero
        ELSE IF n <= MantBits
             THEN [m |-> ShiftLeft(t, MantBits - n), e |-> e - (MantBits - n)]
        ELSE LET drop  == n - MantBits
                 kept  == ShiftRight(t, drop)
                 upto  == ShiftRight(t, drop - 1)
                 guard == upto[1] % 2
                 below == sticky \/ ShiftLeft(upto, drop - 1) # t
                 up    == guard = 1 /\ (below \/ kept[1] % 2 = 1)
                 r     == IF up THEN AddBig(kept, <<1>>) ELSE kept
             IN  IF BitLen(r) > MantBits
                 THEN [m |-> ShiftRight(r, 1), e |-> e + drop + 1]
                 ELSE [m |-> r, e |-> e + drop]

\* The number a JSON decimal literal n / 10^d denotes.
ParseDecimal(n, d) ==
    IF n = 0 THEN Zero
    ELSE LET qr == DivSmall(ShiftLeft(LimbsOf(n), ParseScale), Pow10(d))
         IN  Round53(qr.q, qr.r # 0, 0 - ParseScale)

\* x * q for a number x and an integer 0 < q < Base.
MulInt(x, q) ==
    IF IsNaN(x) THEN NaN
    ELSE IF x = Zero THEN Zero
    ELSE Round53(MulSmall(x.m, q), FALSE, x.e)

\* x + y.
AddNum(x, y) ==
    IF IsNaN(x) \/ IsNaN(y) THEN NaN
    ELSE IF x = Zero THEN y
    ELSE IF y = Zero THEN x
    ELSE LET e == Min2(x.e, y.e)
         IN  Round53(AddBig(ShiftLeft(x.m, x.e - e), ShiftLeft(y.m, y.e - e)),
                     FALSE, e)

\* x.toFixed(2) for 0 <= x < 2^52.  The string is modelled by the number of
\* hundredths its digits spell, [cents |-> n]: n is the integer with
\* n / 100 - x closest to zero, the larger n of two.  NaN.toFixed(2) is the
\* string "NaN", modelled as NaN.
ToFixed2(x) ==
    IF IsNaN(x) THEN NaN
    ELSE IF x = Zero THEN [cents |-> 0]
    ELSE LET scaled == MulSmall(x.m, 200)
             half   == ShiftLeft(<<1>>, 0 - x.e)
         IN  [cents |-> IntOf(ShiftRight(AddBig(scaled, half), 1 - x.e))]

\* Number(s) for the string s that toFixed(2) returned.
NumberOfFixed2(s) == IF IsNaN(s) THEN NaN ELSE ParseDecimal(s.cents, 2)

\* ------------------------------------------------------------------------
\* Configuration (process.env) and the values a request body can hold.
\* ------------------------------------------------------------------------

MAX_RETRIES == 3

API_PASS == "secret"

INN == "770000000000"

APPNAME == "shop"

ADMIN_EMAIL == "admin@shop"

\* A field the JSON body does not hold (the JavaScript value undefined),
\* for string fields and for number fields.
Undefined == "undefined"

Absent == -1

\* An element of items: JSON null, or an object with id, name, price and
\* quantity.  price is the decimal literal in thousandths (10.005 is 10005),
\* quantity an integer; either may be Absent.
NullElem == [isNull |-> TRUE, id |-> 0, name |-> "", price |-> Absent, quantity |-> Absent]

Item(id, price, quantity) ==
    [isNull |-> FALSE, id |-> id, name |-> "item", price |-> price, quantity |-> quantity]

\* What items can be: null, a JSON value that is no array, or an array.
ItemsNull == [kind |-> "null", elems |-> << >>]

ItemsNotArray == [kind |-> "object", elems |-> << >>]

ItemsArray(elems) == [kind |-> "array", elems |-> elems]

\* The arrays requests are drawn from: three lines in two orders, a line
\* with quantity 0, a line without price, and a null element.
ItemArrays ==
    { << >>,
      <<Item(1, 314, 3), Item(2, 2254, 1), Item(3, 2319, Absent)>>,
      <<Item(3, 2319, Absent), Item(2, 2254, 1), Item(1, 314, 3)>>,
      <<Item(1, 2254, 0)>>,
      <<Item(1, Absent, 2)>>,
      <<NullElem>> }

ItemsValues == {ItemsNull, ItemsNotArray} \cup {ItemsArray(a) : a \in ItemArrays}

Bodies ==
    [api_pass : {API_PASS, "wrong", Undefined},
     email    : {"client@mail", "", Undefined},
     items    : ItemsValues]

\* The errors the collaborators reject with (Error objects; one has an empty
\* message) and the identifiers the registrar returns.
Errors == {[message |-> "ECONNRESET"], [message |-> ""]}

ReceiptIds == {"r1", "r2"}

NoErr == [message |-> "none"]

\* ------------------------------------------------------------------------
\* The handler's computations.
\* ------------------------------------------------------------------------

\* JavaScript truthiness of a string field.
Truthy(v) == v # "" /\ v # Undefined

\* Mutation: the shared secret is not compared.
AuthorizedAlways(body) == TRUE

\* api_pass !== process.env.API_PASS is false.
Authorized(body) == body.api_pass = API_PASS

\* Mutation: an empty array passes.
ValidBodyAnyLength(body) == Truthy(body.email) /\ body.items.kind = "array"

\* !email || !Array.isArray(items) || items.length === 0 is false.
ValidBody(body) ==
    Truthy(body.email) /\ body.items.kind = "array" /\ Len(body.items.elems) # 0

\* i.quantity || 1
QtyOrOne(i) == IF i.quantity = Absent \/ i.quantity = 0 THEN 1 ELSE i.quantity

\* i.price * (i.quantity || 1); a missing price gives NaN.
LineAmount(i) ==
    IF i.price = Absent THEN NaN ELSE MulInt(ParseDecimal(i.price, 3), QtyOrOne(i))

\* items.reduce((sum, i) => sum + i.price * (i.quantity || 1), 0) over the
\* first n elements, left to right, when no element is null.
RECURSIVE ReduceTo(_, _)
ReduceTo(elems, n) ==
    IF n = 0 THEN Zero ELSE AddNum(ReduceTo(elems, n - 1), LineAmount(elems[n]))

\* Reading i.price of a null element throws a TypeError.
ReduceThrows(elems) == \E k \in 1..Len(elems) : elems[k].isNull

TotalOf(elems) == ReduceTo(elems, Len(elems))

TypeErrorNull == [message |-> "Cannot read properties of null"]

TypeErrorToFixed == [message |-> "Cannot read properties of undefined (reading 'toFixed')"]

\* income = {name, amount: Number(total.toFixed(2)), quantity: 1}
IncomeOf(total) ==
    [name |-> APPNAME, amount |-> NumberOfFixed2(ToFixed2(total)), quantity |-> 1]

\* i.price.toFixed(2) in the rows of the email throws when price is missing.
RowsThrow(elems) == \E k \in 1..Len(elems) : elems[k].price = Absent

\* Mutation: the link is built without the identifier of the receipt.
PrintLinkNoId(inn, receiptId) == [inn |-> inn, receiptId |-> ""]

\* The link https://lknpd.nalog.ru/api/v1/receipt/<INN>/<receiptId>/print,
\* kept as the two values put into the template.
PrintLink(inn, receiptId) == [inn |-> inn, receiptId |-> receiptId]

UNKNOWN_ERROR == "Neizvestnaya oshibka"

\* err.message || "Neizvestnaya oshibka"
MessageOf(e) == IF e.message # "" THEN e.message ELSE UNKNOWN_ERROR

\* errorData of the catch block.
ErrorDataOf(body, e) ==
    [email    |-> body.email,
     items    |-> body.items,
     amount   |-> TotalOf(body.items.elems),
     error    |-> MessageOf(e),
     api_pass |-> body.api_pass]

\* ------------------------------------------------------------------------
\* The failure file.  Its content is missing, text that is no JSON, JSON
\* that is no array, or a JSON array of records.
\* ------------------------------------------------------------------------

FileMissing == [kind |-> "missing", recs |-> << >>]

FileGarbage == [kind |-> "text", recs |-> << >>]


FileArray(recs) == [kind |-> "array", recs |-> recs]

JsonNull == [null |-> TRUE]

\* JSON.stringify writes NaN as null; every other value of a record reads
\* back as it was written.
JsonOfNumber(x) == IF IsNaN(x) THEN JsonNull ELSE x

JsonOfRecord(r) == [r EXCEPT !.amount = JsonOfNumber(r.amount)]

Stringify(recs) == [k \in 1..Len(recs) |-> JsonOfRecord(recs[k])]

\* Mutation: what was read is thrown away.
ParsedErrorsEmpty(f) == << >>

\* Mutation: Array.isArray is not asked.
ParsedErrorsAnyJson(f) == f.recs

\* errors after the inner try of saveToErrorFile, when readFile succeeded.
ParsedErrors(f) == IF f.kind = "array" THEN f.recs ELSE << >>

\* {...errorData, timestamp, retryAttempt: 0}
NewRecord(data, time) ==
    [email        |-> data.email,
     items        |-> data.items,
     amount       |-> data.amount,
     error        |-> data.error,
     api_pass     |-> data.api_pass,
     timestamp    |-> time,
     retryAttempt |-> 0]

OldRecord ==
    JsonOfRecord(NewRecord(ErrorDataOf([api_pass |-> API_PASS, email |-> "old@mail",
                                        items |-> ItemsArray(<<Item(1, 1005, Absent)>>)],
                                       [message |-> "ETIMEDOUT"]), 0))

\* JSON that parses to an object wrapping one record, not to an array.
FileNotArray == [kind |-> "json", recs |-> <<OldRecord>>]

InitialFiles == {FileMissing, FileGarbage, FileNotArray, FileArray(<< >>), FileArray(<<OldRecord>>)}

\* ------------------------------------------------------------------------
\* State.
\* ------------------------------------------------------------------------

NumProcs == 2

Procs == 1..NumProcs

MaxRequests == 2

NoBody == [api_pass |-> Undefined, email |-> Undefined, items |-> ItemsNull]

NoIncome == [name |-> "", amount |-> Zero, quantity |-> 0]

NoData == [email |-> "", items |-> ItemsNull, amount |-> Zero, error |-> "", api_pass |-> ""]

VARIABLES
    pc,          \* where each handler invocation stands
    req,         \* req.body
    income,      \* the declaration built at lines 156-160
    attempt,     \* createReceiptWithRetry's loop counter
    receiptId,   \* the registrar's identifier
    caught,      \* err of the catch block at line 238
    errorData,   \* errorData of the catch block
    errors,      \* saveToErrorFile's array, as handed to writeFile
    res,         \* the responses sent for the request
    addCalls,    \* the addIncome calls of the request and their outcomes
    mailCalls,   \* the sendMail calls of the request and their outcomes
    waits,       \* the timers createReceiptWithRetry has set, in order
    fileOps,     \* the readFile and writeFile calls of the request and their outcomes
    fileAtStart, \* the failure file when the request arrived
    file,        \* the failure file
    now,         \* the clock read by new Date()
    served,      \* requests received so far
    hpc,         \* where the health handler stands
    hresult,     \* result of the health handler
    hres         \* the responses sent for the health request

reqVars == <<pc, req, income, attempt, receiptId, caught, errorData, errors, res,
             addCalls, mailCalls, waits, fileOps, fileAtStart>>

healthVars == <<hpc, hresult, hres>>

vars == <<reqVars, file, now, served, healthVars>>

HealthOk == [status |-> "ok", connect_to_fns |-> "ok", smtp |-> "ok"]

\* result of the health handler, with the outcome of each probe.
NoHealth == [result |-> HealthOk, verify |-> "pending", getUserInfo |-> "pending"]

Init ==
    /\ pc = [p \in Procs |-> "idle"]
    /\ req = [p \in Procs |-> NoBody]
    /\ income = [p \in Procs |-> NoIncome]
    /\ attempt = [p \in Procs |-> 0]
    /\ receiptId = [p \in Procs |-> ""]
    /\ caught = [p \in Procs |-> NoErr]
    /\ errorData = [p \in Procs |-> NoData]
    /\ errors = [p \in Procs |-> << >>]
    /\ res = [p \in Procs |-> << >>]
    /\ addCalls = [p \in Procs |-> << >>]
    /\ mailCalls = [p \in Procs |-> << >>]
    /\ waits = [p \in Procs |-> << >>]
    /\ fileOps = [p \in Procs |-> << >>]
    /\ fileAtStart = [p \in Procs |-> FileMissing]
    /\ file \in InitialFiles
    /\ now = 1
    /\ served = 0
    /\ hpc = "idle"
    /\ hresult = NoHealth
    /\ hres = << >>

\* ------------------------------------------------------------------------
\* POST /api/v1/create-receipt
\* ------------------------------------------------------------------------

Resp401 == [status |-> 401, body |-> [error |-> "Unauthorized"]]

Resp400 == [status |-> 400, body |-> [error |-> "Nevernye dannye"]]

\* Mutation: the catch block answers with the default status, 200.
Resp500NoStatus ==
    [status |-> 200,
     body   |-> [error |-> "Ne udalos sozdat chek. Dannye sohraneny dlya povtornoy popytki.",
                 saved_to_error_file |-> TRUE]]

Resp500 ==
    [status |-> 500,
     body   |-> [error |-> "Ne udalos sozdat chek. Dannye sohraneny dlya povtornoy popytki.",
                 saved_to_error_file |-> TRUE]]

Resp200(id, link) ==
    [status |-> 200, body |-> [success |-> TRUE, receiptId |-> id, printLink |-> link]]

NoLink == PrintLink("", "")

Finished == {"idle", "done", "unhandled"}

\* Mutation: the catch block does not call saveToErrorFile.
CatchPcNoSave(body) == IF ReduceThrows(body.items.elems) THEN "unhandled" ELSE "notify"

\* The catch block up to its first await.  Its own reduce throws again when
\* an element of items is null, and nothing catches that: the promise of the
\* handler is rejected and no response is sent.
CatchPc(body) == IF ReduceThrows(body.items.elems) THEN "unhandled" ELSE "readFile"

CatchData(body, e, old) ==
    IF ReduceThrows(body.items.elems) THEN old ELSE ErrorDataOf(body, e)

\* The handler from the arrival of the request to its first await.  The
\* locals of the invocation start afresh, and those of a health request that
\* has been answered are dropped.
Request(p, body) ==
    /\ pc[p] \in Finished
    /\ served < MaxRequests
    /\ served' = served + 1
    /\ now' = now + 1
    /\ req' = [req EXCEPT ![p] = body]
    /\ fileAtStart' = [fileAtStart EXCEPT ![p] = file]
    /\ receiptId' = [receiptId EXCEPT ![p] = ""]
    /\ errors' = [errors EXCEPT ![p] = << >>]
    /\ addCalls' = [addCalls EXCEPT ![p] = << >>]
    /\ mailCalls' = [mailCalls EXCEPT ![p] = << >>]
    /\ waits' = [waits EXCEPT ![p] = << >>]
    /\ fileOps' = [fileOps EXCEPT ![p] = << >>]
    /\ IF ~Authorized(body)
       THEN /\ res' = [res EXCEPT ![p] = <<Resp401>>]
            /\ pc' = [pc EXCEPT ![p] = "done"]
            /\ income' = [income EXCEPT ![p] = NoIncome]
            /\ attempt' = [attempt EXCEPT ![p] = 0]
            /\ caught' = [caught EXCEPT ![p] = NoErr]
            /\ errorData' = [errorData EXCEPT ![p] = NoData]
       ELSE IF ~ValidBody(body)
       THEN /\ res' = [res EXCEPT ![p] = <<Resp400>>]
            /\ pc' = [pc EXCEPT ![p] = "done"]
            /\ income' = [income EXCEPT ![p] = NoIncome]
            /\ attempt' = [attempt EXCEPT ![p] = 0]
            /\ caught' = [caught EXCEPT ![p] = NoErr]
            /\ errorData' = [errorData EXCEPT ![p] = NoData]
       ELSE IF ReduceThrows(body.items.elems)
       THEN /\ res' = [res EXCEPT ![p] = << >>]
            /\ pc' = [pc EXCEPT ![p] = CatchPc(body)]
            /\ income' = [income EXCEPT ![p] = NoIncome]
            /\ attempt' = [attempt EXCEPT ![p] = 0]
            /\ caught' = [caught EXCEPT ![p] = TypeErrorNull]
            /\ errorData' = [errorData EXCEPT ![p] = CatchData(body, TypeErrorNull, NoData)]
       ELSE /\ res' = [res EXCEPT ![p] = << >>]
            /\ pc' = [pc EXCEPT ![p] = "addIncome"]
            /\ income' = [income EXCEPT ![p] = IncomeOf(TotalOf(body.items.elems))]
            /\ attempt' = [attempt EXCEPT ![p] = 1]
            /\ caught' = [caught EXCEPT ![p] = NoErr]
            /\ errorData' = [errorData EXCEPT ![p] = NoData]
    /\ hpc' = "idle"
    /\ hresult' = NoHealth
    /\ hres' = << >>
    /\ UNCHANGED file

\* nalogApi.addIncome(income) resolves with id: createReceiptWithRetry
\* returns it, and the handler runs on to transporter.sendMail.
AddIncomeOk(p, id) ==
    /\ pc[p] = "addIncome"
    /\ addCalls' = [addCalls EXCEPT ![p] =
                       Append(@, [income |-> income[p], ok |-> TRUE, id |-> id, err |-> NoErr])]
    /\ receiptId' = [receiptId EXCEPT ![p] = id]
    /\ IF RowsThrow(req[p].items.elems)
       THEN /\ pc' = [pc EXCEPT ![p] = CatchPc(req[p])]
            /\ caught' = [caught EXCEPT ![p] = TypeErrorToFixed]
            /\ errorData' = [errorData EXCEPT ![p] =
                                CatchData(req[p], TypeErrorToFixed, errorData[p])]
       ELSE /\ pc' = [pc EXCEPT ![p] = "sendMail"]
            /\ UNCHANGED <<caught, errorData>>
    /\ UNCHANGED <<req, income, attempt, errors, res, mailCalls, waits, fileOps,
                   fileAtStart, file, now, served, healthVars>>

\* Mutation: the loop makes one attempt more (attempt <= retries + 1).
LastAttemptLate(a, retries) == a = retries + 1

\* Mutation: the loop gives up one attempt early.
LastAttemptEarly(a, retries) == a >= retries - 1

\* attempt === retries
LastAttempt(a, retries) == a = retries

\* Mutation: the error is wrapped in a new one.
RethrownWrapped(e) == [message |-> "addIncome failed"]

\* throw err
Rethrown(e) == e

\* The delay of the timer, in milliseconds.
RETRY_DELAY == 2000

\* Mutation: the delay grows with the attempt number (linear backoff).
DelayBackoff(a) == RETRY_DELAY * a

\* setTimeout(r, 2000): the same delay after every attempt.
DelayOf(a) == RETRY_DELAY

\* nalogApi.addIncome(income) rejects with e: the last attempt throws e, an
\* earlier one starts the 2-second timer.
AddIncomeFail(p, e) ==
    /\ pc[p] = "addIncome"
    /\ addCalls' = [addCalls EXCEPT ![p] =
                       Append(@, [income |-> income[p], ok |-> FALSE, id |-> "", err |-> e])]
    /\ IF LastAttempt(attempt[p], MAX_RETRIES)
       THEN /\ pc' = [pc EXCEPT ![p] = CatchPc(req[p])]
            /\ caught' = [caught EXCEPT ![p] = Rethrown(e)]
            /\ errorData' = [errorData EXCEPT ![p] =
                                CatchData(req[p], Rethrown(e), errorData[p])]
            /\ UNCHANGED waits
       ELSE /\ pc' = [pc EXCEPT ![p] = "wait"]
            /\ waits' = [waits EXCEPT ![p] =
                            Append(@, [after |-> attempt[p], ms |-> DelayOf(attempt[p])])]
            /\ UNCHANGED <<caught, errorData>>
    /\ UNCHANGED <<req, income, attempt, receiptId, errors, res, mailCalls,
                   fileOps, fileAtStart, file, now, served, healthVars>>

\* The timer fires: the loop goes on to the next attempt.
WaitDone(p) ==
    /\ pc[p] = "wait"
    /\ attempt' = [attempt EXCEPT ![p] = @ + 1]
    /\ pc' = [pc EXCEPT ![p] = "addIncome"]
    /\ UNCHANGED <<req, income, receiptId, caught, errorData, errors, res, addCalls,
                   mailCalls, waits, fileOps, fileAtStart, file, now, served, healthVars>>

ReceiptMail(p, ok) ==
    [to |-> req[p].email, kind |-> "receipt", ok |-> ok,
     link |-> PrintLink(INN, receiptId[p]), data |-> NoData]

AdminMail(p, ok) ==
    [to |-> ADMIN_EMAIL, kind |-> "admin", ok |-> ok, link |-> NoLink,
     data |-> errorData[p]]

\* The customer's mail is sent: res.json({success, receiptId, printLink}).
SendMailOk(p) ==
    /\ pc[p] = "sendMail"
    /\ mailCalls' = [mailCalls EXCEPT ![p] = Append(@, ReceiptMail(p, TRUE))]
    /\ res' = [res EXCEPT ![p] = Append(@, Resp200(receiptId[p], PrintLink(INN, receiptId[p])))]
    /\ pc' = [pc EXCEPT ![p] = "done"]
    /\ UNCHANGED <<req, income, attempt, receiptId, caught, errorData, errors, addCalls,
                   waits, fileOps, fileAtStart, file, now, served, healthVars>>

\* transporter.sendMail rejects with e.
SendMailFail(p, e) ==
    /\ pc[p] = "sendMail"
    /\ mailCalls' = [mailCalls EXCEPT ![p] = Append(@, ReceiptMail(p, FALSE))]
    /\ pc' = [pc EXCEPT ![p] = CatchPc(req[p])]
    /\ caught' = [caught EXCEPT ![p] = e]
    /\ errorData' = [errorData EXCEPT ![p] = CatchData(req[p], e, errorData[p])]
    /\ UNCHANGED <<req, income, attempt, receiptId, errors, res, addCalls, waits, fileOps,
                   fileAtStart, file, now, served, healthVars>>

\* ------------------------------------------------------------------------
\* saveToErrorFile and notifyAdmin
\* ------------------------------------------------------------------------

\* Mutation: the record is put first (unshift for push).
ErrorsToWriteFirst(prior, data, time) == Stringify(<<NewRecord(data, time)>> \o prior)

\* errors after the push, as JSON.stringify writes it.
ErrorsToWrite(prior, data, time) == Stringify(Append(prior, NewRecord(data, time)))

\* fs.readFile resolves: the text is parsed, the record pushed and
\* fs.writeFile called with the whole array.
ReadFileOk(p) ==
    /\ pc[p] = "readFile"
    /\ file.kind # "missing"
    /\ errors' = [errors EXCEPT ![p] = ErrorsToWrite(ParsedErrors(file), errorData[p], now)]
    /\ fileOps' = [fileOps EXCEPT ![p] = Append(@, [op |-> "read", ok |-> TRUE, content |-> file])]
    /\ pc' = [pc EXCEPT ![p] = "writeFile"]
    /\ UNCHANGED <<req, income, attempt, receiptId, caught, errorData, res, addCalls,
                   mailCalls, waits, fileAtStart, file, now, served, healthVars>>

\* fs.readFile rejects (no such file, or an existing file cannot be read):
\* the inner catch leaves errors empty.
ReadFileFail(p) ==
    /\ pc[p] = "readFile"
    /\ errors' = [errors EXCEPT ![p] = ErrorsToWrite(<< >>, errorData[p], now)]
    /\ fileOps' = [fileOps EXCEPT ![p] = Append(@, [op |-> "read", ok |-> FALSE, content |-> FileMissing])]
    /\ pc' = [pc EXCEPT ![p] = "writeFile"]
    /\ UNCHANGED <<req, income, attempt, receiptId, caught, errorData, res, addCalls,
                   mailCalls, waits, fileAtStart, file, now, served, healthVars>>

\* The invocations other than p that have read the file and not yet written
\* it: each holds a copy of the file as it was before the write of p.
StaleReaders(p) == {q \in Procs \ {p} : pc[q] = "writeFile"}

\* Mutation: the write appends the new record to the file as it is at the
\* time of the write (an atomic append).
WrittenAppended(p) == Append(ParsedErrors(file), errors[p][Len(errors[p])])

\* fs.writeFile(ERROR_FILE, JSON.stringify(errors, null, 2)): the file is
\* replaced by the array built from what this invocation read.
Written(p) == errors[p]

\* Mutation: saveToErrorFile lets the error of writeFile through, and the
\* catch block of the handler ends there.
AfterWriteThrowing(ok) == IF ok THEN "notify" ELSE "unhandled"

\* Where the handler goes when writeFile has settled: the outer catch of
\* saveToErrorFile keeps the error, and notifyAdmin is called either way.
AfterWrite(ok) == "notify"

\* fs.writeFile resolves; saveToErrorFile returns and notifyAdmin calls
\* transporter.sendMail.
WriteFileOk(p) ==
    /\ pc[p] = "writeFile"
    /\ file' = FileArray(Written(p))
    /\ fileOps' = [fileOps EXCEPT ![p] =
                      Append(@, [op |-> "write", ok |-> TRUE, content |-> Written(p),
                                 before |-> file, stale |-> StaleReaders(p)])]
    /\ pc' = [pc EXCEPT ![p] = AfterWrite(TRUE)]
    /\ UNCHANGED <<req, income, attempt, receiptId, caught, errorData, errors, res,
                   addCalls, mailCalls, waits, fileAtStart, now, served, healthVars>>

\* fs.writeFile rejects, having left the file as it was or having truncated
\* it; the outer catch of saveToErrorFile logs the error.
WriteFileFail(p, truncated) ==
    /\ pc[p] = "writeFile"
    /\ file' = IF truncated THEN FileGarbage ELSE file
    /\ fileOps' = [fileOps EXCEPT ![p] =
                      Append(@, [op |-> "write", ok |-> FALSE, content |-> Written(p),
                                 before |-> file, stale |-> StaleReaders(p)])]
    /\ pc' = [pc EXCEPT ![p] = AfterWrite(FALSE)]
    /\ UNCHANGED <<req, income, attempt, receiptId, caught, errorData, errors, res,
                   addCalls, mailCalls, waits, fileAtStart, now, served, healthVars>>

\* The administrator's mail is sent or fails (notifyAdmin catches the
\* failure); the catch block then answers 500.
NotifyDone(p, ok) ==
    /\ pc[p] = "notify"
    /\ mailCalls' = [mailCalls EXCEPT ![p] = Append(@, AdminMail(p, ok))]
    /\ res' = [res EXCEPT ![p] = Append(@, Resp500)]
    /\ pc' = [pc EXCEPT ![p] = "done"]
    /\ UNCHANGED <<req, income, attempt, receiptId, caught, errorData, errors, addCalls,
                   waits, fileOps, fileAtStart, file, now, served, healthVars>>

\* ------------------------------------------------------------------------
\* GET /health
\* ------------------------------------------------------------------------

\* The handler up to its first await.  The locals of create-receipt
\* invocations that have ended are dropped.
HealthRequest ==
    /\ hpc \in {"idle", "done"}
    /\ hpc' = "verify"
    /\ hresult' = NoHealth
    /\ hres' = << >>
    /\ pc' = [p \in Procs |-> IF pc[p] \in Finished THEN "idle" ELSE pc[p]]
    /\ req' = [p \in Procs |-> IF pc[p] \in Finished THEN NoBody ELSE req[p]]
    /\ income' = [p \in Procs |-> IF pc[p] \in Finished THEN NoIncome ELSE income[p]]
    /\ attempt' = [p \in Procs |-> IF pc[p] \in Finished THEN 0 ELSE attempt[p]]
    /\ receiptId' = [p \in Procs |-> IF pc[p] \in Finished THEN "" ELSE receiptId[p]]
    /\ caught' = [p \in Procs |-> IF pc[p] \in Finished THEN NoErr ELSE caught[p]]
    /\ errorData' = [p \in Procs |-> IF pc[p] \in Finished THEN NoData ELSE errorData[p]]
    /\ errors' = [p \in Procs |-> IF pc[p] \in Finished THEN << >> ELSE errors[p]]
    /\ res' = [p \in Procs |-> IF pc[p] \in Finished THEN << >> ELSE res[p]]
    /\ addCalls' = [p \in Procs |-> IF pc[p] \in Finished THEN << >> ELSE addCalls[p]]
    /\ mailCalls' = [p \in Procs |-> IF pc[p] \in Finished THEN << >> ELSE mailCalls[p]]
    /\ waits' = [p \in Procs |-> IF pc[p] \in Finished THEN << >> ELSE waits[p]]
    /\ fileOps' = [p \in Procs |-> IF pc[p] \in Finished THEN << >> ELSE fileOps[p]]
    /\ fileAtStart' = [p \in Procs |-> IF pc[p] \in Finished THEN FileMissing ELSE fileAtStart[p]]
    /\ UNCHANGED <<file, now, served>>

\* result after the try around transporter.verify().
AfterVerify(result, ok) ==
    IF ok THEN result ELSE [result EXCEPT !.smtp = "error", !.status = "degraded"]

\* Mutation: a failed getUserInfo leaves status as it was.
AfterGetUserInfoKeepStatus(result, ok) ==
    IF ok THEN result ELSE [result EXCEPT !.connect_to_fns = "error"]

\* result after the try around nalogApi.getUserInfo().
AfterGetUserInfo(result, ok) ==
    IF ok THEN result ELSE [result EXCEPT !.connect_to_fns = "error", !.status = "degraded"]

Outcome(ok) == IF ok THEN "ok" ELSE "failed"

\* transporter.verify() resolves (ok) or rejects.
VerifyDone(ok) ==
    /\ hpc = "verify"
    /\ hresult' = [hresult EXCEPT !.verify = Outcome(ok),
                                  !.result = AfterVerify(hresult.result, ok)]
    /\ hpc' = "getUserInfo"
    /\ UNCHANGED <<hres, reqVars, file, now, served>>

\* nalogApi.getUserInfo() resolves (ok) or rejects; res.json(result).
GetUserInfoDone(ok) ==
    /\ hpc = "getUserInfo"
    /\ hresult' = [hresult EXCEPT !.getUserInfo = Outcome(ok),
                                  !.result = AfterGetUserInfo(hresult.result, ok)]
    /\ hres' = Append(hres, [status |-> 200, body |-> hresult'.result])
    /\ hpc' = "done"
    /\ UNCHANGED <<reqVars, file, now, served>>

\* ------------------------------------------------------------------------
\* One request at a time: a request arrives only when no handler is between
\* two of its steps.
\* ------------------------------------------------------------------------

Quiet == (\A p \in Procs : pc[p] \in Finished) /\ hpc \in {"idle", "done"}

\* The handler invocation the one-at-a-time specification runs.
OneHandler == {1}

Next ==
    \/ \E p \in OneHandler, body \in Bodies : Quiet /\ Request(p, body)
    \/ \E p \in OneHandler, id \in ReceiptIds : AddIncomeOk(p, id)
    \/ \E p \in OneHandler, e \in Errors : AddIncomeFail(p, e)
    \/ \E p \in OneHandler : WaitDone(p)
    \/ \E p \in OneHandler : SendMailOk(p)
    \/ \E p \in OneHandler, e \in Errors : SendMailFail(p, e)
    \/ \E p \in OneHandler : ReadFileOk(p)
    \/ \E p \in OneHandler : ReadFileFail(p)
    \/ \E p \in OneHandler : WriteFileOk(p)
    \/ \E p \in OneHandler, truncated \in BOOLEAN : WriteFileFail(p, truncated)
    \/ \E p \in OneHandler, ok \in BOOLEAN : NotifyDone(p, ok)
    \/ Quiet /\ HealthRequest
    \/ \E ok \in BOOLEAN : VerifyDone(ok)
    \/ \E ok \in BOOLEAN : GetUserInfoDone(ok)

Spec == Init /\ [][Next]_vars

\* ------------------------------------------------------------------------
\* Concurrent requests: every invocation of the create-receipt handler takes
\* its steps whenever its awaited promise settles, whatever the others do.
\* The requests are authorized and valid and differ in their items; the
\* collaborators reject with one error and the registrar gives one
\* identifier.
\* ------------------------------------------------------------------------

ConcItems ==
    {ItemsArray(<<Item(1, 2254, 0)>>),
     ItemsArray(<<Item(1, 314, 3), Item(2, 2254, 1), Item(3, 2319, Absent)>>)}

ConcBodies == {b \in Bodies : Authorized(b) /\ ValidBody(b) /\ b.items \in ConcItems}

ConcErrors == {e \in Errors : e.message # ""}

ConcIds == {"r1"}

NextConc ==
    \/ \E p \in Procs, body \in ConcBodies : Request(p, body)
    \/ \E p \in Procs, id \in ConcIds : AddIncomeOk(p, id)
    \/ \E p \in Procs, e \in ConcErrors : AddIncomeFail(p, e)
    \/ \E p \in Procs : WaitDone(p)
    \/ \E p \in Procs : SendMailOk(p)
    \/ \E p \in Procs, e \in ConcErrors : SendMailFail(p, e)
    \/ \E p \in Procs : ReadFileOk(p)
    \/ \E p \in Procs : ReadFileFail(p)
    \/ \E p \in Procs : WriteFileOk(p)
    \/ \E p \in Procs, truncated \in BOOLEAN : WriteFileFail(p, truncated)
    \/ \E p \in Procs, ok \in BOOLEAN : NotifyDone(p, ok)

SpecConc == Init /\ [][NextConc]_vars

\* ------------------------------------------------------------------------
\* Properties.
\* ------------------------------------------------------------------------

Started(p) == pc[p] # "idle"

\* The handler is past createReceiptWithRetry: it returned or it threw.
PastRegistrar(p) ==
    pc[p] \in {"sendMail", "readFile", "writeFile", "notify", "done", "unhandled"}
    /\ addCalls[p] # << >>

\* The number of addIncome calls that failed before the first that succeeded.
LeadingFailures(calls) ==
    Cardinality({j \in 1..Len(calls) : \A i \in 1..j : ~calls[i].ok})

\* C1: a request whose api_pass is not the configured secret is answered
\* 401 {error: "Unauthorized"}, whatever its email and items, and the handler
\* calls neither addIncome nor sendMail.
C1_Unauthorized ==
    \A p \in Procs :
        (Started(p) /\ req[p].api_pass # API_PASS)
            => /\ pc[p] = "done"
               /\ res[p] = <<[status |-> 401, body |-> [error |-> "Unauthorized"]]>>
               /\ addCalls[p] = << >>
               /\ mailCalls[p] = << >>

C1_Witness ==
    \E p \in Procs :
        /\ pc[p] = "done"
        /\ req[p].api_pass = "wrong"
        /\ req[p].email = "client@mail"
        /\ req[p].items.kind = "array"
        /\ Len(req[p].items.elems) = 3
        /\ res[p][1].status = 401

\* C2: a request with the right api_pass whose email is missing or empty, or
\* whose items is null, no array or an empty array, is answered 400 and the
\* handler makes no downstream call: no addIncome, no sendMail, no file
\* access.
C2_BadRequest ==
    \A p \in Procs :
        (/\ Started(p)
         /\ req[p].api_pass = API_PASS
         /\ \/ req[p].email \in {"", Undefined}
            \/ req[p].items.kind # "array"
            \/ req[p].items.elems = << >>)
            => /\ pc[p] = "done"
               /\ Len(res[p]) = 1
               /\ res[p][1].status = 400
               /\ addCalls[p] = << >>
               /\ mailCalls[p] = << >>
               /\ fileOps[p] = << >>

C2_Witness ==
    \E p \in Procs :
        /\ pc[p] = "done"
        /\ req[p].api_pass = API_PASS
        /\ req[p].email = "client@mail"
        /\ req[p].items = ItemsArray(<< >>)
        /\ res[p][1].status = 400

\* C3: when the first k addIncome calls fail, createReceiptWithRetry makes
\* exactly min(k + 1, 3) calls; it returns the identifier of the first call
\* that succeeds, and no call follows that one.
C3_RetryCount ==
    \A p \in Procs :
        LET calls == addCalls[p]
            n     == Len(calls)
            k     == LeadingFailures(calls)
        IN  /\ n <= 3
            /\ \A j \in 1..n : calls[j].ok => j = n
            /\ PastRegistrar(p)
                => /\ n = Min2(k + 1, 3)
                   /\ k < n => /\ calls[n].ok
                               /\ receiptId[p] = calls[n].id

C3_Witness ==
    \E p \in Procs :
        /\ pc[p] = "done"
        /\ Len(addCalls[p]) = 3
        /\ ~addCalls[p][1].ok
        /\ ~addCalls[p][2].ok
        /\ addCalls[p][3].ok
        /\ receiptId[p] = addCalls[p][3].id
        /\ res[p][1].status = 200

\* C4: createReceiptWithRetry throws exactly when three addIncome calls have
\* failed; no fourth call is made, and what it throws is the error of the
\* third call itself.
C4_LastError ==
    \A p \in Procs :
        LET calls == addCalls[p]
            n     == Len(calls)
            threw == PastRegistrar(p) /\ ~calls[n].ok
        IN  /\ n <= 3
            /\ threw => /\ n = 3
                        /\ \A j \in 1..3 : ~calls[j].ok
                        /\ caught[p] = calls[3].err
            /\ (n = 3 /\ ~calls[3].ok) => threw

C4_Witness ==
    \E p \in Procs :
        /\ pc[p] = "done"
        /\ Len(addCalls[p]) = 3
        /\ \A j \in 1..3 : ~addCalls[p][j].ok
        /\ addCalls[p][1].err # addCalls[p][3].err
        /\ caught[p] = addCalls[p][3].err
        /\ res[p][1].status = 500

\* C5: every create-receipt request ends with exactly one JSON response,
\* of status 200, 400, 401 or 500, whatever the collaborators do and
\* whatever the elements of items are; no error leaves the handler.
C5_AlwaysAnswers ==
    \A p \in Procs :
        /\ pc[p] # "unhandled"
        /\ Len(res[p]) <= 1
        /\ pc[p] = "done" => /\ Len(res[p]) = 1
                             /\ res[p][1].status \in {200, 400, 401, 500}

\* The items are line items: no element is null, each has a price, and a
\* quantity that is absent or positive.
LineItems(elems) ==
    \A k \in 1..Len(elems) :
        /\ ~elems[k].isNull
        /\ elems[k].price # Absent
        /\ elems[k].quantity = Absent \/ elems[k].quantity > 0

\* The sum of price x quantity (1 when absent) in thousandths, exactly.
RECURSIVE ExactThousandths(_, _)
ExactThousandths(elems, n) ==
    IF n = 0 THEN 0
    ELSE ExactThousandths(elems, n - 1)
         + elems[n].price * (IF elems[n].quantity = Absent THEN 1 ELSE elems[n].quantity)

\* That sum rounded to hundredths, halves up.
ExactCents(elems) == (ExactThousandths(elems, Len(elems)) + 5) \div 10

Orders(n) == {f \in [1..n -> 1..n] : \A i, j \in 1..n : i # j => f[i] # f[j]}

\* C6: the amount of every declaration handed to addIncome is the sum over
\* the items of price x quantity (1 when absent) rounded once, on the total,
\* to 2 decimals; it does not depend on the order of the items; and the
\* declaration's quantity is 1.
C6_AmountIsRoundedSum ==
    \A p \in Procs : \A j \in 1..Len(addCalls[p]) :
        LET elems == req[p].items.elems
            n     == Len(elems)
            sent  == addCalls[p][j].income
        IN  LineItems(elems)
                => /\ sent.amount = ParseDecimal(ExactCents(elems), 2)
                   /\ sent.quantity = 1
                   /\ \A f \in Orders(n) :
                          IncomeOf(TotalOf([k \in 1..n |-> elems[f[k]]])).amount = sent.amount

\* createReceiptWithRetry threw: the three addIncome calls failed.
RegistrationFailed(p) == Len(addCalls[p]) = 3 /\ ~addCalls[p][3].ok

\* The record r is the one saveToErrorFile builds for request p with the
\* error text msg.
RecordOfRequest(r, p, msg) ==
    /\ r.email = req[p].email
    /\ r.items = req[p].items
    /\ r.error = msg
    /\ r.retryAttempt = 0

ReadSucceeded(p) == Len(fileOps[p]) >= 1 /\ fileOps[p][1].op = "read" /\ fileOps[p][1].ok

WriteSucceeded(p) == Len(fileOps[p]) >= 2 /\ fileOps[p][2].op = "write" /\ fileOps[p][2].ok

\* The file holds the records it held when request p arrived, followed by
\* one record of request p with the error text msg.
OneMoreRecord(p, msg) ==
    LET n == Len(fileAtStart[p].recs)
    IN  /\ file.kind = "array"
        /\ Len(file.recs) = n + 1
        /\ SubSeq(file.recs, 1, n) = fileAtStart[p].recs
        /\ RecordOfRequest(file.recs[n + 1], p, msg)

\* C7 as stated: when a request handled alone ends in a registration
\* failure and the file held a valid array of n records, the file holds
\* n + 1 records once the handler has answered: the n prior ones, then one
\* with the request's email and items, the failure's message as error, and
\* retryAttempt 0.
C7_AsStated ==
    \A p \in Procs :
        (pc[p] = "done" /\ RegistrationFailed(p) /\ fileAtStart[p].kind = "array")
            => OneMoreRecord(p, caught[p].message)

\* C7 amended: the same, when the file was read and written without error;
\* the record's error is the failure's message, or the default text when
\* that message is empty.
C7_Amended ==
    \A p \in Procs :
        (/\ pc[p] = "done"
         /\ RegistrationFailed(p)
         /\ fileAtStart[p].kind = "array"
         /\ ReadSucceeded(p)
         /\ WriteSucceeded(p))
            => OneMoreRecord(p, IF caught[p].message = ""
                                THEN "Neizvestnaya oshibka"
                                ELSE caught[p].message)

C7_Witness ==
    \E p \in Procs :
        /\ pc[p] = "done"
        /\ RegistrationFailed(p)
        /\ fileAtStart[p] = FileArray(<<OldRecord>>)
        /\ ReadSucceeded(p)
        /\ WriteSucceeded(p)
        /\ Len(file.recs) = 2
        /\ file.recs[1] = OldRecord
        /\ file.recs[2].error = "ECONNRESET"
        /\ res[p][1].status = 500

\* saveToErrorFile of request p found no usable prior collection: the file
\* was missing, held no JSON or no array, or could not be read.
NoUsablePrior(p) ==
    /\ Len(fileOps[p]) >= 1
    /\ fileAtStart[p].kind \in {"missing", "text", "json"} \/ ~fileOps[p][1].ok

OnlyNewRecord(p) ==
    /\ file.kind = "array"
    /\ Len(file.recs) = 1
    /\ RecordOfRequest(file.recs[1], p, errorData[p].error)

\* C8 as stated: when the file is missing, unreadable, no JSON or no array,
\* saveToErrorFile raises nothing, the file afterwards holds exactly the new
\* record, and the request is answered 500.
C8_AsStated ==
    \A p \in Procs :
        NoUsablePrior(p)
            => /\ pc[p] # "unhandled"
               /\ pc[p] = "done" => /\ OnlyNewRecord(p)
                                    /\ Len(res[p]) = 1
                                    /\ res[p][1].status = 500

\* C8 amended: the file holds exactly the new record when the write
\* succeeded; with or without that, nothing is raised and the answer is 500.
C8_Amended ==
    \A p \in Procs :
        NoUsablePrior(p)
            => /\ pc[p] # "unhandled"
               /\ pc[p] = "done" => /\ WriteSucceeded(p) => OnlyNewRecord(p)
                                    /\ Len(res[p]) = 1
                                    /\ res[p][1].status = 500

C8_Witness ==
    \E p \in Procs :
        /\ pc[p] = "done"
        /\ fileAtStart[p] = FileNotArray
        /\ ReadSucceeded(p)
        /\ WriteSucceeded(p)
        /\ OnlyNewRecord(p)
        /\ res[p][1].status = 500

\* C9: GET /health answers 200 whatever the probes do: smtp is "error"
\* exactly when verify failed, connect_to_fns is "error" exactly when
\* getUserInfo failed, status is "ok" exactly when both succeeded and
\* "degraded" otherwise; getUserInfo is attempted also after a failed verify.
C9_Health ==
    /\ Len(hres) <= 1
    /\ hpc = "getUserInfo" => hresult.verify \in {"ok", "failed"}
    /\ hpc = "done" =>
          /\ hresult.verify \in {"ok", "failed"}
          /\ hresult.getUserInfo \in {"ok", "failed"}
          /\ Len(hres) = 1
          /\ hres[1].status = 200
          /\ hres[1].body.smtp = (IF hresult.verify = "failed" THEN "error" ELSE "ok")
          /\ hres[1].body.connect_to_fns =
                 (IF hresult.getUserInfo = "failed" THEN "error" ELSE "ok")
          /\ hres[1].body.status =
                 (IF hresult.verify = "ok" /\ hresult.getUserInfo = "ok"
                  THEN "ok" ELSE "degraded")

C9_Witness ==
    /\ hpc = "done"
    /\ hresult.verify = "ok"
    /\ hresult.getUserInfo = "failed"
    /\ hres[1].status = 200
    /\ hres[1].body = [status |-> "degraded", connect_to_fns |-> "error", smtp |-> "ok"]

\* The customer's mail of request p was attempted and failed.
CustomerMailFailed(p) ==
    /\ Len(mailCalls[p]) >= 1
    /\ mailCalls[p][1].kind = "receipt"
    /\ ~mailCalls[p][1].ok

\* C10: when registration succeeds and the customer's mail fails, the
\* request goes the way of a registration failure: a failure record built
\* from the request is handed to the file write, the administrator's mail is
\* attempted, and the answer is 500 with saved_to_error_file true, although
\* a receipt was registered.
C10_MailFailure ==
    \A p \in Procs :
        CustomerMailFailed(p)
            => /\ addCalls[p][Len(addCalls[p])].ok
               /\ receiptId[p] = addCalls[p][Len(addCalls[p])].id
               /\ pc[p] \in {"readFile", "writeFile", "notify", "done"}
               /\ errorData[p].email = req[p].email
               /\ errorData[p].items = req[p].items
               /\ pc[p] \in {"notify", "done"} =>
                     /\ Len(fileOps[p]) = 2
                     /\ fileOps[p][2].op = "write"
                     /\ RecordOfRequest(fileOps[p][2].content[Len(fileOps[p][2].content)],
                                        p, errorData[p].error)
                     /\ fileOps[p][2].ok => file = FileArray(fileOps[p][2].content)
               /\ pc[p] = "done" =>
                     /\ Len(mailCalls[p]) = 2
                     /\ mailCalls[p][2].kind = "admin"
                     /\ mailCalls[p][2].to = ADMIN_EMAIL
                     /\ mailCalls[p][2].data = errorData[p]
                     /\ res[p] = <<[status |-> 500,
                                    body   |-> [error |-> Resp500.body.error,
                                                saved_to_error_file |-> TRUE]]>>

C10_Witness ==
    \E p \in Procs :
        /\ pc[p] = "done"
        /\ CustomerMailFailed(p)
        /\ addCalls[p][1].ok
        /\ WriteSucceeded(p)
        /\ file.recs[Len(file.recs)].email = req[p].email
        /\ mailCalls[p][2].kind = "admin"
        /\ res[p][1].status = 500
        /\ res[p][1].body.saved_to_error_file

\* C11: createReceiptWithRetry sets a timer of 2 seconds after every failed
\* addIncome call that another call follows, and after no other call: the
\* i-th timer follows the failed i-th call, no timer follows a call that
\* succeeded or the third call, and when createReceiptWithRetry has returned
\* or thrown the timers are one fewer than the calls.  The third failure is
\* thrown at once: the handler is in its catch block with that error.
C11_Waits ==
    \A p \in Procs :
        LET calls == addCalls[p]
            n     == Len(calls)
            w     == waits[p]
        IN  /\ \A i \in 1..Len(w) :
                   /\ w[i].ms = 2000
                   /\ w[i].after = i
                   /\ i <= n
                   /\ ~calls[i].ok
                   /\ i < 3
            /\ pc[p] = "wait" => Len(w) = n
            /\ pc[p] = "addIncome" => Len(w) = n /\ attempt[p] = n + 1
            /\ PastRegistrar(p) => Len(w) = n - 1
            /\ (n = 3 /\ ~calls[n].ok)
                   => /\ pc[p] \in {"readFile", "writeFile", "notify", "done"}
                      /\ caught[p] = calls[n].err

C11_Witness ==
    \E p \in Procs :
        /\ pc[p] = "readFile"
        /\ Len(addCalls[p]) = 3
        /\ \A i \in 1..3 : ~addCalls[p][i].ok
        /\ waits[p] = <<[after |-> 1, ms |-> 2000], [after |-> 2, ms |-> 2000]>>

\* Request p read the file before request q wrote it, both read the same
\* content without error, q wrote first and p wrote over what q had written,
\* both without error.
ReadBeforeEitherWrote(p, q) ==
    /\ p # q
    /\ ReadSucceeded(p)
    /\ ReadSucceeded(q)
    /\ fileOps[p][1].content = fileOps[q][1].content
    /\ WriteSucceeded(q)
    /\ p \in fileOps[q][2].stale
    /\ WriteSucceeded(p)
    /\ fileOps[p][2].before = FileArray(fileOps[q][2].content)

\* C12: when two concurrent requests that fail both read the failure file
\* before either writes it, the second write puts back the records that were
\* read plus the record of its own request alone: the file is no longer
\* after the second write than after the first, the record of the first
\* writer is gone from its place, and both requests are answered 500 with
\* saved_to_error_file true.
C12_LostUpdate ==
    \A p, q \in Procs :
        ReadBeforeEitherWrote(p, q)
            => LET wp == fileOps[p][2].content
                   wq == fileOps[q][2].content
               IN  /\ Len(wp) = Len(wq)
                   /\ SubSeq(wp, 1, Len(wp) - 1) = SubSeq(wq, 1, Len(wq) - 1)
                   /\ RecordOfRequest(wp[Len(wp)], p, errorData[p].error)
                   /\ \A r \in {p, q} :
                          pc[r] = "done"
                              => /\ res[r][Len(res[r])].status = 500
                                 /\ res[r][Len(res[r])].body.saved_to_error_file

C12_Witness ==
    \E p, q \in Procs :
        /\ ReadBeforeEitherWrote(p, q)
        /\ pc[p] = "done"
        /\ pc[q] = "done"
        /\ res[p][1].status = 500 /\ res[p][1].body.saved_to_error_file
        /\ res[q][1].status = 500 /\ res[q][1].body.saved_to_error_file
        /\ fileOps[p][1].content = FileArray(<<OldRecord>>)
        /\ file.kind = "array"
        /\ Len(file.recs) = 2
        /\ file.recs[1] = OldRecord
        /\ RecordOfRequest(file.recs[2], p, errorData[p].error)
        /\ req[p].items # req[q].items
        /\ \A i \in 1..Len(file.recs) : ~RecordOfRequest(file.recs[i], q, errorData[q].error)

\* The failure records a file holds: those of a valid array, none otherwise.
RecordsOf(f) == IF f.kind = "array" THEN f.recs ELSE << >>

IsPrefix(s, t) == Len(s) <= Len(t) /\ SubSeq(t, 1, Len(s)) = s

\* Request p takes the step in which its writeFile resolves.
WritesNow(p) ==
    /\ pc[p] = "writeFile"
    /\ pc'[p] # "writeFile"
    /\ fileOps'[p][Len(fileOps'[p])].ok

\* C13 as stated: whatever the requests and their interleaving, every
\* change of the failure file leaves the records it held as an unchanged
\* ordered prefix of the records it holds afterwards.
C13_AsStated == [][IsPrefix(RecordsOf(file), RecordsOf(file'))]_vars

\* C13 amended: a write that succeeds, by a request that read the file
\* without error and whose read content is still what the file holds (no
\* other write came between its read and its write), leaves the records of
\* the file as an unchanged ordered prefix, followed by exactly one record,
\* that of the request.
C13_Amended ==
    [][\A p \in Procs :
          (WritesNow(p) /\ ReadSucceeded(p) /\ fileOps[p][1].content = file)
              => /\ file'.kind = "array"
                 /\ IsPrefix(RecordsOf(file), file'.recs)
                 /\ Len(file'.recs) = Len(RecordsOf(file)) + 1
                 /\ RecordOfRequest(file'.recs[Len(file'.recs)], p, errorData[p].error)]_vars

\* A request has appended its record to the record the file held, while
\* another request was between two of its steps.
C13_Witness ==
    \E p, q \in Procs :
        /\ p # q
        /\ pc[p] \in {"notify", "done"}
        /\ pc[q] \notin Finished
        /\ ReadSucceeded(p)
        /\ WriteSucceeded(p)
        /\ fileOps[p][1].content = FileArray(<<OldRecord>>)
        /\ fileOps[p][2].before = fileOps[p][1].content
        /\ file.kind = "array"
        /\ Len(file.recs) = 2
        /\ file.recs[1] = OldRecord
        /\ RecordOfRequest(file.recs[2], p, errorData[p].error)

\* The operations of request p on the failure file, and its mails to the
\* administrator.
FileOpsOf(p, op) == {i \in 1..Len(fileOps[p]) : fileOps[p][i].op = op}

AdminMailsOf(p) == {i \in 1..Len(mailCalls[p]) : mailCalls[p][i].kind = "admin"}

\* C14: once the catch block has called saveToErrorFile, the handler ends
\* with the answer 500 and saved_to_error_file true and never with an error
\* of its own, whether the read, the write or the administrator's mail
\* failed; the mail is attempted after the write has settled, failed or not;
\* the file is read once and written once and the mail attempted once.
C14_Swallowed ==
    \A p \in Procs :
        /\ Cardinality(FileOpsOf(p, "read")) <= 1
        /\ Cardinality(FileOpsOf(p, "write")) <= 1
        /\ Cardinality(AdminMailsOf(p)) <= 1
        /\ fileOps[p] # << >>
              => /\ pc[p] \in {"writeFile", "notify", "done"}
                 /\ fileOps[p][1].op = "read"
        /\ (pc[p] = "notify")
              => /\ Cardinality(FileOpsOf(p, "write")) = 1
                 /\ AdminMailsOf(p) = {}
        /\ (pc[p] = "done" /\ fileOps[p] # << >>)
              => /\ Cardinality(FileOpsOf(p, "write")) = 1
                 /\ Cardinality(AdminMailsOf(p)) = 1
                 /\ mailCalls[p][Len(mailCalls[p])].kind = "admin"
                 /\ mailCalls[p][Len(mailCalls[p])].to = "admin@shop"
                 /\ Len(res[p]) = 1
                 /\ res[p][1].status = 500
                 /\ res[p][1].body.saved_to_error_file

\* The write and the administrator's mail both failed, and the answer is 500.
C14_Witness ==
    \E p \in Procs :
        /\ pc[p] = "done"
        /\ Len(fileOps[p]) = 2
        /\ fileOps[p][2].op = "write"
        /\ ~fileOps[p][2].ok
        /\ AdminMailsOf(p) # {}
        /\ ~mailCalls[p][Len(mailCalls[p])].ok
        /\ res[p][1].status = 500
        /\ res[p][1].body.saved_to_error_file

ReceiptMailsOf(p) == {i \in 1..Len(mailCalls[p]) : mailCalls[p][i].kind = "receipt"}

\* C15: the customer's mail is sent only when the last addIncome call has
\* succeeded, to the email of the request and with the link built from INN
\* and the identifier that call returned; the answer 200 is sent only when
\* that mail has been sent without error, and carries that identifier and
\* that link.
C15_SuccessOrder ==
    \A p \in Procs :
        LET n == Len(addCalls[p])
        IN  /\ \A i \in ReceiptMailsOf(p) :
                   /\ n >= 1
                   /\ addCalls[p][n].ok
                   /\ mailCalls[p][i].to = req[p].email
                   /\ mailCalls[p][i].link =
                          [inn |-> "770000000000", receiptId |-> addCalls[p][n].id]
            /\ pc[p] = "sendMail" => (n >= 1 /\ addCalls[p][n].ok /\ mailCalls[p] = << >>)
            /\ \A k \in 1..Len(res[p]) :
                   res[p][k].status = 200
                       => /\ Len(res[p]) = 1
                          /\ n >= 1
                          /\ addCalls[p][n].ok
                          /\ Len(mailCalls[p]) = 1
                          /\ mailCalls[p][1].kind = "receipt"
                          /\ mailCalls[p][1].ok
                          /\ mailCalls[p][1].to = req[p].email
                          /\ res[p][k].body =
                                 [success   |-> TRUE,
                                  receiptId |-> addCalls[p][n].id,
                                  printLink |-> [inn       |-> "770000000000",
                                                 receiptId |-> addCalls[p][n].id]]

\* Two failed calls, then a receipt r2, the mail and the answer 200.
C15_Witness ==
    \E p \in Procs :
        /\ pc[p] = "done"
        /\ Len(addCalls[p]) = 3
        /\ addCalls[p][3].ok
        /\ addCalls[p][3].id = "r2"
        /\ mailCalls[p] # << >>
        /\ mailCalls[p][1].ok
        /\ mailCalls[p][1].to = "client@mail"
        /\ res[p][1].status = 200
        /\ res[p][1].body.receiptId = "r2"
        /\ res[p][1].body.printLink.receiptId = "r2"

\* C16: a request answered 401, 400 or 200 has not read or written the
\* failure file and has sent no mail to the administrator, and the file is
\* as it was when the request arrived; a request that has written the file
\* or sent that mail is in its catch block and is answered 500 and nothing
\* else.
C16_OnlyFailures ==
    \A p \in Procs :
        /\ \A k \in 1..Len(res[p]) :
               res[p][k].status \in {401, 400, 200}
                   => /\ fileOps[p] = << >>
                      /\ AdminMailsOf(p) = {}
                      /\ file = fileAtStart[p]
        /\ (FileOpsOf(p, "write") # {} \/ AdminMailsOf(p) # {})
               => /\ pc[p] \in {"notify", "done"}
                  /\ caught[p] # NoErr
                  /\ pc[p] = "done" => (Len(res[p]) = 1 /\ res[p][1].status = 500)

\* A request answered 200 after another had left a record in the file.
C16_Witness ==
    \E p \in Procs :
        /\ pc[p] = "done"
        /\ res[p][1].status = 200
        /\ fileAtStart[p].kind = "array"
        /\ Len(fileAtStart[p].recs) = 2
        /\ file = fileAtStart[p]
        /\ fileOps[p] = << >>
        /\ mailCalls[p][1].kind = "receipt"

SuccessfulCalls(p) == {i \in 1..Len(addCalls[p]) : addCalls[p][i].ok}

\* C17: however concurrent requests interleave, a request sends the
\* customer's mail at most once and calls addIncome at most 3 times, at most
\* one call succeeding; a request whose customer's mail was sent without
\* error has not touched the failure file and has sent no mail to the
\* administrator.
C17_AtMostOnce ==
    \A p \in Procs :
        /\ Cardinality(ReceiptMailsOf(p)) <= 1
        /\ Len(addCalls[p]) <= 3
        /\ Cardinality(SuccessfulCalls(p)) <= 1
        /\ \A i \in ReceiptMailsOf(p) :
               mailCalls[p][i].ok
                   => /\ fileOps[p] = << >>
                      /\ AdminMailsOf(p) = {}
                      /\ pc[p] = "done"

\* One request has succeeded at its third call while the other, started
\* before the first had ended, has failed three times and written the file.
C17_Witness ==
    \E p, q \in Procs :
        /\ p # q
        /\ pc[p] = "done"
        /\ Len(addCalls[p]) = 3
        /\ SuccessfulCalls(p) = {3}
        /\ mailCalls[p] # << >>
        /\ mailCalls[p][1].ok
        /\ Len(addCalls[q]) = 3
        /\ SuccessfulCalls(q) = {}
        /\ WriteSucceeded(q)
        /\ fileOps[q][2].before = fileAtStart[p]
        /\ AdminMailsOf(q) # {}
        /\ fileOps[p] = << >>

\* C18: when a request fails after its total was computed, the amount of
\* its failure record, as built by the catch block, as handed to the file
\* write and as shown in the administrator's mail, is the amount of the
\* declaration built for the registrar: the total rounded to 2 decimals.
C18_RecordAmount ==
    \A p \in Procs :
        (income[p] # NoIncome /\ errorData[p] # NoData)
            => /\ errorData[p].amount = income[p].amount
               /\ \A i \in FileOpsOf(p, "write") :
                      LET w == fileOps[p][i].content
                      IN  w[Len(w)].amount = income[p].amount
               /\ \A i \in AdminMailsOf(p) :
                      mailCalls[p][i].data.amount = income[p].amount

====
